---- MODULE Spec2Model ----
(***************************************************************************)
(* Recursive-descent parser of yet-another-interpreter (src/parser/mod.rs) *)
(* as a state machine: the state is the Parser (lexer, prev, curr), the    *)
(* statement vector parse_program is building and its result; one step is  *)
(* one iteration of parse_program's loop.  Every production is an operator *)
(* translated from its Rust method; a production returns a record          *)
(* [ok, p, val, err]: the Result plus the parser state it leaves behind.   *)
(***************************************************************************)
EXTENDS Naturals, Sequences, FiniteSets

\* source: the text handed to the lexer (with the parts it was built from)
VARIABLES source, parser, statements, result

vars == <<source, parser, statements, result>>

RECURSIVE expression(_), assignment(_), or(_), and(_), equality(_), comparison(_)
RECURSIVE term(_), factor(_), unary(_), call(_), call_args(_, _), primary(_)
RECURSIVE declaration(_), statement(_), block_statement(_), block_loop(_, _)
RECURSIVE function_declaration(_), function_params(_, _), class_methods(_, _)
RECURSIVE parse_program_loop(_), or_loop(_), and_loop(_), equality_loop(_)
RECURSIVE comparison_loop(_), term_loop(_), factor_loop(_), call_loop(_)

-----------------------------------------------------------------------------
(* Tokens.  A TokenType is a tag plus the payload of Identifier, Number and *)
(* String; a TokenInfo pairs it with its source span.                        *)

Tok(type) == [type |-> type, lexeme |-> ""]
Ident(x) == [type |-> "Identifier", lexeme |-> x]
Number(x) == [type |-> "Number", lexeme |-> x]
String(x) == [type |-> "String", lexeme |-> x]

TokenInfo(token, line, start, end) ==
    [token |-> token, line |-> line, start |-> start, end |-> end]

\* TokenInfo::is compares the discriminant only, not the payload.
is(info, type) == info.token.type = type

\* The lexical source: the k-th request yields the k-th token of the text,
\* spanning column k; past the end it keeps yielding Eof at the end column.
LexerNew(tokens) == [tokens |-> tokens, pos |-> 1]

LexerPeek(lexer) ==
    IF lexer.pos <= Len(lexer.tokens)
    THEN TokenInfo(lexer.tokens[lexer.pos], 1, lexer.pos, lexer.pos + 1)
    ELSE TokenInfo(Tok("Eof"), 1, Len(lexer.tokens) + 1, Len(lexer.tokens) + 1)

LexerNext(lexer) == [lexer EXCEPT !.pos = lexer.pos + 1]

-----------------------------------------------------------------------------
(* Errors and results.                                                      *)

\* Option: None, and Some(x) where the payload is not itself a node
NoneV == [kind |-> "None"]
Some(x) == [kind |-> "Some", value |-> x]

Syntax(expected, found) ==
    [kind |-> "Syntax", msg |-> "Expected/Found", expected |-> expected, found |-> found]

Parse(msg) == [kind |-> "Parse", msg |-> msg, expected |-> "", found |-> ""]

ErrorInfo(error, line, start, end) ==
    [kind |-> error.kind, msg |-> error.msg, expected |-> error.expected,
     found |-> error.found, line |-> line, start |-> start, end |-> end]

NoError == [kind |-> "None", msg |-> "", expected |-> "", found |-> "",
            line |-> 0, start |-> 0, end |-> 0]

Ok(p, v) == [ok |-> TRUE, p |-> p, val |-> v, err |-> NoError]
Err(p, e) == [ok |-> FALSE, p |-> p, val |-> NoneV, err |-> e]

-----------------------------------------------------------------------------
(* Expr and Stmt nodes.                                                     *)

ExprLiteral(type, value) == [kind |-> "Literal", type |-> type, value |-> value]
ExprVariable(name) == [kind |-> "Variable", name |-> name]
ExprUnary(op, right) == [kind |-> "Unary", op |-> op, right |-> right]
ExprBinary(left, op, right) ==
    [kind |-> "Binary", left |-> left, op |-> op, right |-> right]
ExprLogical(left, op, right) ==
    [kind |-> "Logical", left |-> left, op |-> op, right |-> right]
ExprGrouping(expr) == [kind |-> "Grouping", expr |-> expr]
ExprAssign(name, value) == [kind |-> "Assign", name |-> name, value |-> value]
ExprGet(object, name) == [kind |-> "Get", object |-> object, name |-> name]
ExprSet(object, name, value) ==
    [kind |-> "Set", object |-> object, name |-> name, value |-> value]
ExprSuper(name) == [kind |-> "Super", name |-> name]

StmtLet(name, value, is_const) ==
    [kind |-> "Let", name |-> name, value |-> value, is_const |-> is_const]
StmtFunction(name, params, body) ==
    [kind |-> "Function", name |-> name, params |-> params, body |-> body]
StmtClass(name, super_class, methods) ==
    [kind |-> "Class", name |-> name, super_class |-> super_class, methods |-> methods]
StmtExpr(expr) == [kind |-> "Expr", expr |-> expr]
StmtPrint(expr) == [kind |-> "Print", expr |-> expr]
StmtReturn(value) == [kind |-> "Return", value |-> value]
StmtIf(condition, truthy, falsy) ==
    [kind |-> "If", condition |-> condition, truthy |-> truthy, falsy |-> falsy]
StmtWhile(condition, body) == [kind |-> "While", condition |-> condition, body |-> body]
StmtFor(initializer, condition, increment, body) ==
    [kind |-> "For", initializer |-> initializer, condition |-> condition,
     increment |-> increment, body |-> body]
StmtBlock(stmt) == [kind |-> "Block", stmt |-> stmt]

-----------------------------------------------------------------------------
(* The token cursor.                                                        *)

ParserNew(lexer) ==
    [prev |-> TokenInfo(Tok("Eof"), 0, 0, 0), curr |-> LexerPeek(lexer),
     lexer |-> LexerNext(lexer)]

\* advance: prev := curr, curr := lexer.next(); the token it returns is the
\* new state's prev.token.
advance(p) == [prev |-> p.curr, curr |-> LexerPeek(p.lexer), lexer |-> LexerNext(p.lexer)]

should_be(p, token_type) ==
    IF is(p.curr, token_type)
    THEN Ok(advance(p), advance(p).prev.token)
    ELSE Err(p, ErrorInfo(Syntax(token_type, p.curr.token.type),
                          p.curr.line, p.curr.start, p.curr.end))

get_identifier(p) ==
    IF p.curr.token.type = "Identifier"
    THEN Ok(advance(p), p.curr.token.lexeme)
    ELSE Err(p, ErrorInfo(Syntax("Identifier", p.curr.token.type),
                          p.curr.line, p.curr.start, p.curr.end))

-----------------------------------------------------------------------------
(* The expression grammar.                                                  *)

AssignOps == {"Assign", "PlusEq", "SubEq", "ModEq", "DivEq", "AndEq", "OrEq",
              "MulEq", "XorEq"}
OrOps == {"Or"}
AndOps == {"LAnd"}
EqualityOps == {"Eq", "Ne"}
ComparisonOps == {"Gt", "Gte", "Lt", "Lte"}
TermOps == {"Plus", "Minus", "Or", "And", "Xor"}
FactorOps == {"Times", "Divide"}
UnaryOps == {"Minus", "Not", "Plus"}

\* The ? operator: a failed step is returned as it is.
\* r?, then self.should_be(token_type)?, keeping r's value
expect(r, token_type) ==
    IF ~r.ok THEN r
    ELSE IF should_be(r.p, token_type).ok
    THEN Ok(should_be(r.p, token_type).p, r.val)
    ELSE should_be(r.p, token_type)

expression(p) == assignment(p)

\* A variant that looks through parentheses for the assignment target.
assignment_node_through_grouping(p, left, right) ==
    CASE left.kind = "Variable" -> Ok(p, ExprAssign(left.name, right))
      [] left.kind = "Get" -> Ok(p, ExprSet(left.object, left.name, right))
      [] left.kind = "Grouping" /\ left.expr.kind = "Variable" ->
           Ok(p, ExprAssign(left.expr.name, right))
      [] OTHER -> Err(p, ErrorInfo(Parse("Invalid assignment target"),
                                   p.curr.line, p.curr.start, p.curr.end))

\* The match on left of Parser::assignment, after the operator and the right
\* side are consumed; p is the state after the right side.
assignment_node(p, left, right) ==
    CASE left.kind = "Variable" -> Ok(p, ExprAssign(left.name, right))
      [] left.kind = "Get" -> Ok(p, ExprSet(left.object, left.name, right))
      [] OTHER -> Err(p, ErrorInfo(Parse("Invalid assignment target"),
                                   p.curr.line, p.curr.start, p.curr.end))

assignment_right(left, r) == IF r.ok THEN assignment_node(r.p, left, r.val) ELSE r

assignment_left(l) ==
    IF ~l.ok THEN l
    ELSE IF l.p.curr.token.type \in AssignOps
    THEN assignment_right(l.val, or(advance(l.p)))
    ELSE l

assignment(p) == assignment_left(or(p))

\* left = Expr::Logical { left, op, right } and left = Expr::Binary { ... },
\* with r the result of parsing the right operand
logical_fold(left, op, r) == IF r.ok THEN Ok(r.p, ExprLogical(left, op, r.val)) ELSE r
binary_fold(left, op, r) == IF r.ok THEN Ok(r.p, ExprBinary(left, op, r.val)) ELSE r

or_loop(l) ==
    IF l.ok /\ l.p.curr.token.type \in OrOps
    THEN or_loop(logical_fold(l.val, advance(l.p).prev.token, and(advance(l.p))))
    ELSE l

or(p) == or_loop(and(p))

and_loop(l) ==
    IF l.ok /\ l.p.curr.token.type \in AndOps
    THEN and_loop(logical_fold(l.val, advance(l.p).prev.token, equality(advance(l.p))))
    ELSE l

and(p) == and_loop(equality(p))

equality_loop(l) ==
    IF l.ok /\ l.p.curr.token.type \in EqualityOps
    THEN equality_loop(logical_fold(l.val, advance(l.p).prev.token,
                                    comparison(advance(l.p))))
    ELSE l

equality(p) == equality_loop(comparison(p))

comparison_loop(l) ==
    IF l.ok /\ l.p.curr.token.type \in ComparisonOps
    THEN comparison_loop(logical_fold(l.val, advance(l.p).prev.token, term(advance(l.p))))
    ELSE l

comparison(p) == comparison_loop(term(p))

term_loop(l) ==
    IF l.ok /\ l.p.curr.token.type \in TermOps
    THEN term_loop(binary_fold(l.val, advance(l.p).prev.token, factor(advance(l.p))))
    ELSE l

term(p) == term_loop(factor(p))

\* A variant whose right operand is parsed at its own level (right-associative).
factor_loop_right_assoc(l) ==
    IF l.ok /\ l.p.curr.token.type \in FactorOps
    THEN binary_fold(l.val, advance(l.p).prev.token, factor(advance(l.p)))
    ELSE l

factor_loop(l) ==
    IF l.ok /\ l.p.curr.token.type \in FactorOps
    THEN factor_loop(binary_fold(l.val, advance(l.p).prev.token, unary(advance(l.p))))
    ELSE l

factor(p) == factor_loop(unary(p))

unary_node(op, r) == IF r.ok THEN Ok(r.p, ExprUnary(op, r.val)) ELSE r

unary(p) ==
    IF p.curr.token.type \in UnaryOps
    THEN unary_node(advance(p).prev.token, unary(advance(p)))
    ELSE call(p)

\* args.push(self.expression()?); if !Comma { break }; self.advance()
call_args_next(args, e) ==
    IF ~e.ok THEN e
    ELSE IF ~is(e.p.curr, "Comma") THEN Ok(e.p, Append(args, e.val))
    ELSE call_args(advance(e.p), Append(args, e.val))

call_args(p, args) == call_args_next(args, expression(p))

\* After the argument loop: expr is what it was.
call_arguments_end(expr, a) == IF a.ok THEN Ok(a.p, expr) ELSE a

\* The LParen arm of the loop of Parser::call: the arguments are parsed into
\* a local vector and the arm ends there; it neither consumes a closing token
\* nor changes expr.
call_arguments(expr, q) ==
    IF ~is(q.curr, "RParen")
    THEN call_arguments_end(expr, call_args(q, <<>>))
    ELSE Ok(q, expr)

\* The Dot arm: expr = Expr::Get { object: expr, name }
call_get(expr, n) == IF n.ok THEN Ok(n.p, ExprGet(expr, n.val)) ELSE n

call_loop(e) ==
    IF ~e.ok THEN e
    ELSE CASE e.p.curr.token.type = "LParen" ->
                call_loop(call_arguments(e.val, advance(e.p)))
           [] e.p.curr.token.type = "Dot" ->
                call_loop(call_get(e.val, get_identifier(advance(e.p))))
           [] OTHER -> e

call(p) == call_loop(primary(p))

\* A variant that returns the inner tree unwrapped.
grouping_node_flattened(expr) == expr

\* The LParen arm of Parser::primary wraps the inner tree.
grouping_node(expr) == ExprGrouping(expr)

primary_grouping(e) == IF e.ok THEN Ok(e.p, grouping_node(e.val)) ELSE e

super_node(n) == IF n.ok THEN Ok(n.p, ExprSuper(n.val)) ELSE n

primary_super(d) == IF d.ok THEN super_node(get_identifier(d.p)) ELSE d

primary(p) ==
    CASE p.curr.token.type = "True" -> Ok(advance(p), ExprLiteral("Boolean", "true"))
      [] p.curr.token.type = "False" -> Ok(advance(p), ExprLiteral("Boolean", "false"))
      [] p.curr.token.type = "Number" ->
           Ok(advance(p), ExprLiteral("Number", p.curr.token.lexeme))
      [] p.curr.token.type = "String" ->
           Ok(advance(p), ExprLiteral("String", p.curr.token.lexeme))
      [] p.curr.token.type = "Identifier" ->
           Ok(advance(p), ExprVariable(p.curr.token.lexeme))
      [] p.curr.token.type = "LParen" ->
           primary_grouping(expect(expression(advance(p)), "RParen"))
      [] p.curr.token.type = "Super" -> primary_super(should_be(advance(p), "Dot"))
      [] p.curr.token.type = "This" -> Ok(advance(p), ExprVariable("this"))
      [] OTHER ->
           Err(advance(p), ErrorInfo(Parse("Expect expression."), advance(p).curr.line,
                                     advance(p).curr.start, advance(p).curr.end))

-----------------------------------------------------------------------------
(* The statement grammar.                                                   *)

let_node(name, is_const, v) ==
    IF v.ok THEN Ok(v.p, StmtLet(name, v.val, is_const)) ELSE v

let_value(is_const, n) ==
    IF ~n.ok THEN n
    ELSE let_node(n.val, is_const,
                  expect(IF is(n.p.curr, "Assign")
                         THEN expression(advance(n.p))
                         ELSE Ok(n.p, NoneV),
                         "Semicolon"))

let_declaration(p) == let_value(is(p.curr, "Const"), get_identifier(advance(p)))

expression_node(e) == IF e.ok THEN Ok(e.p, StmtExpr(e.val)) ELSE e

\* A variant that does not require the separator.
expression_statement_unterminated(p) == expression_node(expression(p))

expression_statement(p) == expression_node(expect(expression(p), "Semicolon"))

print_node(e) == IF e.ok THEN Ok(e.p, StmtPrint(e.val)) ELSE e

print_statement(p) == print_node(expect(expression(advance(p)), "Semicolon"))

return_node(v) == IF v.ok THEN Ok(v.p, StmtReturn(v.val)) ELSE v

return_statement(p) ==
    return_node(expect(IF ~is(advance(p).curr, "Semicolon")
                       THEN expression(advance(p))
                       ELSE Ok(advance(p), NoneV),
                       "Semicolon"))

for_node(initializer, condition, increment, b) ==
    IF b.ok THEN Ok(b.p, StmtFor(initializer, condition, increment, b.val)) ELSE b

for_body(initializer, condition, n) ==
    IF n.ok THEN for_node(initializer, condition, n.val, statement(n.p)) ELSE n

for_increment(initializer, c) ==
    IF ~c.ok THEN c
    ELSE for_body(initializer, c.val,
                  expect(IF is(c.p.curr, "RParen") THEN Ok(c.p, NoneV) ELSE expression(c.p),
                         "RParen"))

for_condition(i) ==
    IF ~i.ok THEN i
    ELSE for_increment(i.val,
                       expect(IF is(i.p.curr, "Semicolon")
                              THEN Ok(i.p, NoneV)
                              ELSE expression(i.p),
                              "Semicolon"))

\* The initializer clause of Parser::for_statement: the Semicolon arm yields
\* None and consumes nothing.
for_initializer(l) ==
    IF ~l.ok THEN l
    ELSE CASE l.p.curr.token.type = "Semicolon" -> Ok(l.p, NoneV)
           [] l.p.curr.token.type = "Let" -> let_declaration(l.p)
           [] OTHER -> expression_statement(l.p)

for_statement(p) == for_condition(for_initializer(should_be(advance(p), "LParen")))

\* self.should_be(LParen)?; let condition = self.expression()?;
\* self.should_be(RParen)?
condition_header(l) == expect(IF l.ok THEN expression(l.p) ELSE l, "RParen")

if_node(condition, truthy, f) ==
    IF f.ok THEN Ok(f.p, StmtIf(condition, truthy, f.val)) ELSE f

if_falsy(condition, t) ==
    IF ~t.ok THEN t
    ELSE IF is(t.p.curr, "Else")
    THEN if_node(condition, t.val, statement(advance(t.p)))
    ELSE Ok(t.p, StmtIf(condition, t.val, NoneV))

if_truthy(c) == IF c.ok THEN if_falsy(c.val, statement(c.p)) ELSE c

if_statement(p) == if_truthy(condition_header(should_be(advance(p), "LParen")))

while_node(condition, b) == IF b.ok THEN Ok(b.p, StmtWhile(condition, b.val)) ELSE b

while_body(c) == IF c.ok THEN while_node(c.val, statement(c.p)) ELSE c

while_statement(p) == while_body(condition_header(should_be(advance(p), "LParen")))

block_push(stmt, d) == IF d.ok THEN block_loop(d.p, Append(stmt, d.val)) ELSE d

block_loop(p, stmt) ==
    IF ~is(p.curr, "RBrace") /\ ~is(p.curr, "Eof")
    THEN block_push(stmt, declaration(p))
    ELSE Ok(p, stmt)

block_open(l) == IF l.ok THEN block_loop(l.p, <<>>) ELSE l

block_node(b) == IF b.ok THEN Ok(b.p, StmtBlock(b.val)) ELSE b

block_statement(p) == block_node(expect(block_open(should_be(p, "LBrace")), "RBrace"))

function_params_push(params, n) ==
    IF n.ok THEN function_params(n.p, Append(params, n.val)) ELSE n

function_params(p, params) ==
    IF is(p.curr, "Comma")
    THEN function_params_push(params, get_identifier(advance(p)))
    ELSE Ok(p, params)

function_node(name, params, b) ==
    IF b.ok THEN Ok(b.p, StmtFunction(name, params, b.val)) ELSE b

function_body(name, a) ==
    IF a.ok THEN function_node(name, a.val, block_statement(a.p)) ELSE a

function_signature(name, l) ==
    IF ~l.ok THEN l
    ELSE function_body(name,
                       expect(IF ~is(l.p.curr, "RParen")
                              THEN function_params_push(<<>>, get_identifier(l.p))
                              ELSE Ok(l.p, <<>>),
                              "RParen"))

function_name(n) == IF n.ok THEN function_signature(n.val, should_be(n.p, "LParen")) ELSE n

function_declaration(p) == function_name(get_identifier(p))

class_methods_push(methods, m) ==
    IF m.ok THEN class_methods(m.p, Append(methods, m.val)) ELSE m

class_methods(p, methods) ==
    IF ~is(p.curr, "RBrace") /\ ~is(p.curr, "Eof")
    THEN class_methods_push(methods, function_declaration(p))
    ELSE Ok(p, methods)

class_node(name, super_class, m) ==
    IF m.ok THEN Ok(m.p, StmtClass(name, super_class, m.val)) ELSE m

class_open(l) == IF l.ok THEN class_methods(l.p, <<>>) ELSE l

class_body(name, s) ==
    IF ~s.ok THEN s
    ELSE class_node(name, s.val, expect(class_open(should_be(s.p, "LBrace")), "RBrace"))

\* if name == super_class_name { return Err(Parse) }; Some(super_class_name)
class_super_name(name, s) ==
    IF ~s.ok THEN s
    ELSE IF name = s.val
    THEN Err(s.p, ErrorInfo(Parse("Cannot inherit from itself"),
                            s.p.curr.line, s.p.curr.start, s.p.curr.end))
    ELSE Ok(s.p, Some(s.val))

\* The optional "< Identifier" clause of Parser::class_declaration.
class_super(n) ==
    IF ~n.ok THEN n
    ELSE class_body(n.val,
                    IF is(n.p.curr, "Lt")
                    THEN class_super_name(n.val, get_identifier(advance(n.p)))
                    ELSE Ok(n.p, NoneV))

\* Entered from declaration with curr still on the Class keyword.
class_declaration(p) == class_super(get_identifier(p))

statement(p) ==
    CASE p.curr.token.type = "Print" -> print_statement(p)
      [] p.curr.token.type = "If" -> if_statement(p)
      [] p.curr.token.type = "While" -> while_statement(p)
      [] p.curr.token.type = "For" -> for_statement(p)
      [] p.curr.token.type = "Return" -> return_statement(p)
      [] p.curr.token.type = "LBrace" -> block_statement(p)
      [] OTHER -> expression_statement(p)

declaration(p) ==
    CASE p.curr.token.type \in {"Let", "Const"} -> let_declaration(p)
      [] p.curr.token.type = "Class" -> class_declaration(p)
      [] p.curr.token.type = "Function" -> function_declaration(advance(p))
      [] OTHER -> statement(p)

-----------------------------------------------------------------------------
(* parse_program                                                            *)

\* statements.push(self.declaration()?), with r holding the statements so far
push_declaration(stmts, d) == IF d.ok THEN Ok(d.p, Append(stmts, d.val)) ELSE d

parse_program_loop(r) ==
    IF r.ok /\ ~is(r.p.curr, "Eof")
    THEN parse_program_loop(push_declaration(r.val, declaration(r.p)))
    ELSE r

\* Parser::new(Lexer::new(text)).parse_program()
parse_program(tokens) == parse_program_loop(Ok(ParserNew(LexerNew(tokens)), <<>>))

-----------------------------------------------------------------------------
(* Source texts.  Render writes an Expr tree back as the tokens it is       *)
(* written with; each family of texts is built from its parts, which the    *)
(* source descriptor keeps beside the tokens.                               *)

MaxDepth == 2
MaxArgs == 2
MaxMethods == 1

Semi == Tok("Semicolon")
LParen == Tok("LParen")
RParen == Tok("RParen")
LBrace == Tok("LBrace")
RBrace == Tok("RBrace")

Var(x) == ExprVariable(x)
Num(x) == ExprLiteral("Number", x)

RECURSIVE Render(_)
Render(e) ==
    CASE e.kind = "Literal" ->
           IF e.type = "Number" THEN <<Number(e.value)>>
           ELSE IF e.type = "String" THEN <<String(e.value)>>
           ELSE IF e.value = "true" THEN <<Tok("True")>> ELSE <<Tok("False")>>
      [] e.kind = "Variable" ->
           IF e.name = "this" THEN <<Tok("This")>> ELSE <<Ident(e.name)>>
      [] e.kind = "Unary" -> <<e.op>> \o Render(e.right)
      [] e.kind \in {"Binary", "Logical"} -> Render(e.left) \o <<e.op>> \o Render(e.right)
      [] e.kind = "Grouping" -> <<LParen>> \o Render(e.expr) \o <<RParen>>
      [] e.kind = "Get" -> Render(e.object) \o <<Tok("Dot"), Ident(e.name)>>
      [] e.kind = "Super" -> <<Tok("Super"), Tok("Dot"), Ident(e.name)>>

RECURSIVE Repeat(_, _)
Repeat(seq, n) == IF n = 0 THEN <<>> ELSE seq \o Repeat(seq, n - 1)

\* class N [< S] { m() { } ... }
ClassNames == {"A", "B"}

ClassTokens(n, has_super, s, k) ==
    <<Tok("Class"), Ident(n)>>
    \o (IF has_super THEN <<Tok("Lt"), Ident(s)>> ELSE <<>>)
    \o <<LBrace>> \o Repeat(<<Ident("m"), LParen, RParen, LBrace, RBrace>>, k)
    \o <<RBrace>>

ClassSources ==
    { [family |-> "class", tokens |-> ClassTokens(n, hs, s, k), class_name |-> n,
       has_super |-> hs, super_name |-> s, n_methods |-> k] :
      n \in ClassNames, hs \in BOOLEAN, s \in ClassNames, k \in 0..MaxMethods }

\* L op R ;  with L of every shape the logical-or level returns
LeftExprs ==
    { Var("x"), Var("this"),
      ExprGet(Var("a"), "b"), ExprGet(ExprGet(Var("a"), "b"), "c"),
      ExprGet(ExprGrouping(Var("x")), "b"), ExprGet(ExprSuper("m"), "b"),
      Num("1"), ExprLiteral("Boolean", "true"), ExprLiteral("String", "s"),
      ExprGrouping(Var("x")), ExprGrouping(ExprGet(Var("a"), "b")),
      ExprUnary(Tok("Minus"), Var("x")), ExprUnary(Tok("Not"), Var("x")),
      ExprBinary(Var("x"), Tok("Plus"), Var("y")),
      ExprBinary(Var("x"), Tok("Times"), Var("y")),
      ExprBinary(Var("x"), Tok("Xor"), Var("y")),
      ExprLogical(Var("x"), Tok("Eq"), Var("y")),
      ExprLogical(Var("x"), Tok("Lt"), Var("y")),
      ExprLogical(Var("x"), Tok("LAnd"), Var("y")),
      ExprSuper("m") }

RightExprs ==
    { Num("2"), Var("v"), ExprBinary(Var("v"), Tok("Times"), Num("2")),
      ExprLogical(Var("v"), Tok("LAnd"), Var("w")) }

AssignTokens(l, op, r) == Render(l) \o <<Tok(op)>> \o Render(r) \o <<Semi>>

AssignSources ==
    { [family |-> "assign", tokens |-> AssignTokens(l, op, r), left |-> l,
       assign_op |-> op, right |-> r] :
      l \in LeftExprs, op \in AssignOps, r \in RightExprs }

\* Delimited constructs, whole and with one closer left out.
RECURSIVE ArgTokens(_)
ArgTokens(n) ==
    IF n = 0 THEN <<>>
    ELSE IF n = 1 THEN <<Ident("a")>>
    ELSE ArgTokens(n - 1) \o <<Tok("Comma"), Ident("b")>>

CallTokens(n) == <<Ident("f"), LParen>> \o ArgTokens(n) \o <<RParen, Semi>>

DelimTexts ==
    { CallTokens(n) : n \in 0..MaxArgs }
    \cup { <<LParen, Ident("a"), RParen, Semi>>,
           <<Tok("If"), LParen, Ident("a"), RParen, Ident("x"), Semi>>,
           <<Tok("While"), LParen, Ident("a"), RParen, Ident("x"), Semi>>,
           <<LBrace, Ident("x"), Semi, RBrace>>,
           <<Tok("Function"), Ident("g"), LParen, Ident("a"), RParen, LBrace, RBrace>>,
           <<Tok("If"), LParen, Ident("f"), LParen, Ident("a"), RParen, RParen,
             Ident("x"), Semi>> }

Closers == {"RParen", "RBrace"}
Openers == {"LParen", "LBrace"}

Drop(seq, i) == SubSeq(seq, 1, i - 1) \o SubSeq(seq, i + 1, Len(seq))

DelimSources ==
    { [family |-> "delim", tokens |-> t, whole |-> TRUE] : t \in DelimTexts }
    \cup UNION { { [family |-> "delim", tokens |-> Drop(t, i), whole |-> FALSE] :
                   i \in { j \in 1..Len(t) : t[j].type \in Closers } } :
                 t \in DelimTexts }

\* A statement whose separator is missing: head, then a token that is not
\* the separator and does not continue the expression, then the rest.
SepExprs == { Var("a"), ExprBinary(Num("1"), Tok("Plus"), Num("2")), ExprGrouping(Var("a")) }

SepHeads ==
    { [stmt |-> "let", reaches |-> TRUE, head |-> <<Tok("Let"), Ident("x")>>] }
    \cup { [stmt |-> "let", reaches |-> TRUE,
            head |-> <<Tok(k), Ident("x"), Tok("Assign")>> \o Render(e)] :
           k \in {"Let", "Const"}, e \in SepExprs }
    \cup { [stmt |-> "expr", reaches |-> TRUE, head |-> Render(e)] : e \in SepExprs }
    \cup { [stmt |-> "print", reaches |-> TRUE, head |-> <<Tok("Print")>> \o Render(e)] :
           e \in SepExprs }
    \cup { [stmt |-> "return", reaches |-> TRUE, head |-> <<Tok("Return")>> \o Render(e)] :
           e \in SepExprs }
    \cup { [stmt |-> "print", reaches |-> FALSE, head |-> <<Tok("Print")>>],
           [stmt |-> "return", reaches |-> FALSE, head |-> <<Tok("Return")>>] }

\* "Eof" stands for the text ending where the separator should be.
SepFollow(h) ==
    IF h.reaches
    THEN {"Eof", "RBrace", "RParen", "Identifier", "Number", "Let", "Else", "Comma",
          "LBrace", "Return"}
    ELSE {"Eof", "RBrace"}

FollowToken(type) ==
    CASE type = "Identifier" -> <<Ident("z")>>
      [] type = "Number" -> <<Number("9")>>
      [] type = "Eof" -> <<>>
      [] OTHER -> <<Tok(type)>>

SepSources ==
    { [family |-> "sep", tokens |-> x[1].head \o FollowToken(x[2]) \o x[3],
       stmt |-> x[1].stmt, reaches |-> x[1].reaches, follow |-> x[2],
       at |-> Len(x[1].head) + 1] :
      x \in { y \in SepHeads \X {"Eof", "RBrace", "RParen", "Identifier", "Number", "Let",
                                 "Else", "Comma", "LBrace", "Return"}
                     \X {<<>>, <<Semi>>, <<Ident("y"), Semi>>} :
                y[2] \in SepFollow(y[1]) /\ (y[2] = "Eof" => y[3] = <<>>) } }

\* A token that cannot start an expression where an operand is expected.
OperandHeads ==
    { <<>>, <<Tok("Print")>>, <<Tok("Return")>>, <<Ident("x"), Tok("Plus")>>,
      <<Ident("x"), Tok("Assign")>>, <<LParen>>, <<Tok("Let"), Ident("x"), Tok("Assign")>>,
      <<Tok("Minus")>> }

NonStarters == {"Semicolon", "RParen", "RBrace", "Times", "Assign", "Else", "Comma"}

SpanSources ==
    { [family |-> "span", tokens |-> x[1] \o <<Tok(x[2])>> \o x[3], bad_at |-> Len(x[1]) + 1] :
      x \in { y \in OperandHeads \X NonStarters
                     \X {<<>>, <<Semi>>, <<Ident("y"), Semi>>} :
                ~(y[1] = <<Tok("Return")>> /\ y[2] = "Semicolon") } }

\* a op1 b op2 c ;
PrecOps == {"Plus", "Minus", "Times", "Divide"}

PrecSources ==
    { [family |-> "prec", a |-> a, op1 |-> op1, b |-> Var("b"), op2 |-> op2, c |-> c,
       tokens |-> Render(a) \o <<Tok(op1)>> \o Render(Var("b")) \o <<Tok(op2)>>
                  \o Render(c) \o <<Semi>>] :
      a \in {Var("a"), Num("1")}, op1 \in PrecOps, op2 \in PrecOps, c \in {Var("c"), Num("2")} }

\* Parenthesised arithmetic: every operand of an operator is an atom or a
\* parenthesised binary expression, nested to MaxDepth.
ParenAtoms == { Num("1"), Num("2"), Num("32") }
ParenOps == {"Plus", "Times", "Divide"}

RECURSIVE ParenExprs(_)
ParenExprs(d) ==
    IF d = 0 THEN ParenAtoms
    ELSE ParenAtoms
         \cup { ExprGrouping(ExprBinary(x, Tok(op), y)) :
                x \in ParenAtoms, op \in ParenOps, y \in ParenExprs(d - 1) }
         \cup { ExprGrouping(ExprBinary(y, Tok(op), x)) :
                x \in ParenAtoms, op \in ParenOps, y \in ParenExprs(d - 1) }

ParenSources ==
    { [family |-> "paren", tokens |-> Render(e) \o <<Semi>>, tree |-> e] :
      e \in ParenExprs(MaxDepth)
            \cup { ExprUnary(Tok(u), g) :
                   u \in {"Minus", "Not"},
                   g \in { h \in ParenExprs(MaxDepth) : h.kind = "Grouping" } } }

\* for ( [init] ; [cond] ; [incr] ) body
ForInits ==
    { [written |-> FALSE, text |-> <<Semi>>, node |-> NoneV],
      [written |-> TRUE,
       text |-> <<Tok("Let"), Ident("i"), Tok("Assign"), Number("0"), Semi>>,
       node |-> StmtLet("i", Num("0"), FALSE)],
      [written |-> TRUE, text |-> <<Ident("i"), Tok("Assign"), Number("0"), Semi>>,
       node |-> StmtExpr(ExprAssign("i", Num("0")))] }

ForClauses(x) == { [written |-> FALSE, text |-> <<>>, node |-> NoneV],
                   [written |-> TRUE, text |-> <<Ident(x)>>, node |-> Var(x)] }

ForBodies ==
    { [text |-> <<Ident("x"), Semi>>, node |-> StmtExpr(Var("x"))],
      [text |-> <<LBrace, RBrace>>, node |-> StmtBlock(<<>>)],
      [text |-> <<Tok("Print"), Ident("x"), Semi>>, node |-> StmtPrint(Var("x"))] }

ForSources ==
    { [family |-> "for", init |-> i, cond |-> c, incr |-> n, body |-> b,
       tokens |-> <<Tok("For"), LParen>> \o i.text \o c.text \o <<Semi>> \o n.text
                  \o <<RParen>> \o b.text] :
      i \in ForInits, c \in ForClauses("c"), n \in ForClauses("n"), b \in ForBodies }

\* l op r ;  for the operators of the four Logical-producing levels
LogicalLevels ==
    { [level |-> "or", ops |-> OrOps], [level |-> "and", ops |-> AndOps],
      [level |-> "equality", ops |-> EqualityOps],
      [level |-> "comparison", ops |-> ComparisonOps] }

LogicalSources ==
    { [family |-> "logical", level |-> x[1].level, lop |-> x[2], lhs |-> x[3], rhs |-> x[4],
       tokens |-> Render(x[3]) \o <<Tok(x[2])>> \o Render(x[4]) \o <<Semi>>] :
      x \in { y \in LogicalLevels \X (OrOps \cup AndOps \cup EqualityOps \cup ComparisonOps)
                     \X {Var("a"), Num("1")} \X {Var("b"), ExprLiteral("Boolean", "true")} :
                y[2] \in y[1].ops } }

\* Whole programs of several statements.
ProgramSources ==
    { [family |-> "program", tokens |-> t] :
      t \in { <<Tok("Let"), Ident("a"), Tok("Assign"), Number("1"), Semi,
                Tok("Print"), Ident("a"), Semi>>,
              <<Tok("Function"), Ident("g"), LParen, Ident("a"), Tok("Comma"), Ident("b"),
                RParen, LBrace, Tok("Return"), Ident("a"), Semi, RBrace,
                Ident("x"), Tok("Assign"), Number("1"), Semi>>,
              <<>> } }

Sources ==
    ClassSources \cup AssignSources \cup DelimSources \cup SepSources \cup SpanSources
    \cup PrecSources \cup ParenSources \cup ForSources \cup LogicalSources
    \cup ProgramSources

-----------------------------------------------------------------------------
(* The state machine: one step is one iteration of parse_program's loop.    *)

Init ==
    /\ source \in Sources
    /\ parser = ParserNew(LexerNew(source.tokens))
    /\ statements = <<>>
    /\ result = [status |-> "running", err |-> NoError]

\* The ? of the loop body: an Err ends parse_program with that error.
Push(d) ==
    /\ parser' = d.p
    /\ statements' = IF d.ok THEN d.val ELSE statements
    /\ result' = IF d.ok THEN result ELSE [status |-> "err", err |-> d.err]

\* The loop body: statements.push(self.declaration()?)
Declaration ==
    /\ result.status = "running"
    /\ ~is(parser.curr, "Eof")
    /\ Push(push_declaration(statements, declaration(parser)))
    /\ UNCHANGED source

\* The loop exit: Ok(statements)
Finish ==
    /\ result.status = "running"
    /\ is(parser.curr, "Eof")
    /\ result' = [status |-> "ok", err |-> NoError]
    /\ UNCHANGED <<source, parser, statements>>

Next == Declaration \/ Finish

Spec == Init /\ [][Next]_vars

Done == result.status # "running"
Succeeded == result.status = "ok"
Failed == result.status = "err"

-----------------------------------------------------------------------------
(* Properties.                                                              *)

ErrSpan == <<result.err.line, result.err.start, result.err.end>>
TokenAt(i) == LexerPeek([tokens |-> source.tokens, pos |-> i])
SpanAt(i) == <<TokenAt(i).line, TokenAt(i).start, TokenAt(i).end>>

\* The tokens consumed so far: all that were pulled except curr.
Consumed ==
    SubSeq(source.tokens, 1,
           IF parser.lexer.pos - 2 < Len(source.tokens)
           THEN parser.lexer.pos - 2 ELSE Len(source.tokens))

Count(seq, types) == Cardinality({ i \in 1..Len(seq) : seq[i].type \in types })

\* C1: a class declaration `class N { .. }` or `class N < S { .. }` fails
\* with a Parse error exactly when S is present and equals N, and otherwise
\* succeeds with a Class statement of name N and superclass S (or none).
C1_ClassDeclaration ==
    (source.family = "class" /\ Done) =>
        IF source.has_super /\ source.super_name = source.class_name
        THEN Failed /\ result.err.kind = "Parse"
        ELSE /\ Succeeded
             /\ Len(statements) = 1
             /\ statements[1].kind = "Class"
             /\ statements[1].name = source.class_name
             /\ statements[1].super_class =
                    (IF source.has_super THEN Some(source.super_name) ELSE NoneV)

\* C2: `L op R ;` with op an assignment operator parses to Assign when L is
\* a variable reference, to Set when L is a property get, and fails with the
\* Parse error "Invalid assignment target" for every other shape of L.
C2_AssignmentTarget ==
    (source.family = "assign" /\ Done) =>
        CASE source.left.kind = "Variable" ->
               /\ Succeeded
               /\ statements = <<StmtExpr(ExprAssign(source.left.name, source.right))>>
          [] source.left.kind = "Get" ->
               /\ Succeeded
               /\ statements = <<StmtExpr(ExprSet(source.left.object, source.left.name,
                                                  source.right))>>
          [] OTHER ->
               /\ Failed
               /\ result.err.kind = "Parse"
               /\ result.err.msg = "Invalid assignment target"

C2_Witness ==
    /\ source.family = "assign"
    /\ source.left.kind = "Grouping"
    /\ source.assign_op = "PlusEq"
    /\ Failed
    /\ result.err.msg = "Invalid assignment target"

\* C3: a production that consumed an opening ( or { and returned
\* successfully has consumed the matching closer: as long as no production
\* has failed, the consumed tokens hold as many openers as closers.
C3_DelimitersBalanced ==
    ~Failed => Count(Consumed, Openers) = Count(Consumed, Closers)

\* C4 as stated: a let/const declaration, expression statement, print or
\* return statement whose separator is missing fails with a Syntax error,
\* also when } or the end of input directly follows return or print.
C4_MissingSeparatorIsSyntax ==
    (source.family = "sep" /\ Done) => (Failed /\ result.err.kind = "Syntax")

\* C4 as amended: once the statement's name or expression is parsed and the
\* current token is not the separator, the parse fails with the Syntax error
\* (expected Semicolon, found that token, at that token); return or print
\* directly followed by } or the end of input fails with the Parse error
\* "Expect expression." instead.
C4_MissingSeparator ==
    (source.family = "sep" /\ Done) =>
        /\ Failed
        /\ IF source.reaches
           THEN /\ result.err.kind = "Syntax"
                /\ result.err.expected = "Semicolon"
                /\ result.err.found = source.follow
                /\ ErrSpan = SpanAt(source.at)
           ELSE /\ result.err.kind = "Parse"
                /\ result.err.msg = "Expect expression."

C4_Witness ==
    /\ source.family = "sep"
    /\ source.stmt = "print"
    /\ source.reaches
    /\ source.follow = "RBrace"
    /\ Failed
    /\ result.err.kind = "Syntax"

\* C5: every error carries the span of the offending token itself: a Syntax
\* error that of the token found in place of the expected one, and the Parse
\* error "Expect expression." that of the token that cannot start an
\* expression.
C5_ErrorSpan ==
    Failed =>
        /\ result.err.kind = "Syntax" =>
               \E i \in 1..(Len(source.tokens) + 1) :
                   ErrSpan = SpanAt(i) /\ TokenAt(i).token.type = result.err.found
        /\ (source.family = "span" /\ result.err.msg = "Expect expression.") =>
               ErrSpan = SpanAt(source.bad_at)

\* The binding level of an operator as the grammar states it: + - below * /.
Level(op) == IF op \in {"Plus", "Minus"} THEN 1 ELSE 2

\* C6: `a op1 b op2 c` over the levels {+ -} and {* /} parses to
\* Binary(a, op1, Binary(b, op2, c)) exactly when op2 binds strictly tighter
\* than op1, and to Binary(Binary(a, op1, b), op2, c) otherwise.
C6_Precedence ==
    (source.family = "prec" /\ Done) =>
        /\ Succeeded
        /\ statements =
             << StmtExpr(IF Level(source.op2) > Level(source.op1)
                         THEN ExprBinary(source.a, Tok(source.op1),
                                         ExprBinary(source.b, Tok(source.op2), source.c))
                         ELSE ExprBinary(ExprBinary(source.a, Tok(source.op1), source.b),
                                         Tok(source.op2), source.c)) >>

C6_Witness ==
    /\ source.family = "prec"
    /\ source.op1 = "Plus"
    /\ source.op2 = "Times"
    /\ Succeeded
    /\ statements[1].expr.op = Tok("Plus")
    /\ statements[1].expr.right.kind = "Binary"

\* C7: in an expression statement of parenthesised arithmetic every ( e )
\* becomes a Grouping node around exactly the tree of e, and a unary operator
\* before a parenthesised expression wraps that Grouping: the statement's
\* tree is the tree the text was written from.
C7_GroupingPreserved ==
    (source.family = "paren" /\ Done) =>
        (Succeeded /\ statements = <<StmtExpr(source.tree)>>)

\* -(1 / (2 * 32));
C7_Witness ==
    /\ Succeeded
    /\ source.family = "paren"
    /\ statements =
         << StmtExpr(ExprUnary(Tok("Minus"),
               ExprGrouping(ExprBinary(Num("1"), Tok("Divide"),
                  ExprGrouping(ExprBinary(Num("2"), Tok("Times"), Num("32"))))))) >>

\* C8: `for ( [init] ; [cond] ; [incr] ) body` parses, for every combination
\* of written and omitted clauses, to a For statement whose initializer,
\* condition and increment are present exactly for the written clauses.
C8_ForClauses ==
    (source.family = "for" /\ Done) =>
        /\ Succeeded
        /\ statements = << StmtFor(source.init.node, source.cond.node, source.incr.node,
                                   source.body.node) >>

\* C9: an operator of the logical-or, logical-and, equality or comparison
\* level between two operands is folded into a Logical node, for each of
\* those levels (the logical-or level's operator is the Or token).
C9_LogicalNodes ==
    (source.family = "logical" /\ Done) =>
        /\ Succeeded
        /\ statements = << StmtExpr(ExprLogical(source.lhs, Tok(source.lop), source.rhs)) >>

\* C10: the tree of an assignment records its operator: the same target and
\* value written with another assignment operator parse to another tree.
C10_OperatorRecorded ==
    (source.family = "assign" /\ Succeeded) =>
        \A op \in AssignOps \ {source.assign_op} :
            parse_program(AssignTokens(source.left, op, source.right)).val # statements

====
